---- MODULE Spec2Model ----
(***************************************************************************)
(* Model of the native tray shim of mlui (src/native/tray.c, the __APPLE__ *)
(* branch): the TrayHandle structs, the NSStatusItem and TrayTarget        *)
(* objects they own, the OCaml global roots, and the four primitives plus  *)
(* the click delivered by AppKit to TrayTarget handleClick:.               *)
(*                                                                         *)
(* Every C function is an operator from a world record (the program        *)
(* state) to a result [w, ret, eff]: the new world, the returned OCaml     *)
(* value, and the effects of the call (which handle structs were           *)
(* dereferenced, which native objects were messaged, which roots were      *)
(* registered or removed, which objects were released, which callbacks     *)
(* were invoked).  The actions apply the operators to the current state.   *)
(***************************************************************************)
EXTENDS Integers, Sequences, FiniteSets, TLC

\* Number of TrayHandle structs malloc can hand out (they are never freed).
MaxHandles == 2

NULL == 0          \* a null TrayHandle*
nil == 0           \* the Objective-C nil object pointer
NoCallback == 0    \* TrayTarget.callback when no closure is stored
Uninit == -1       \* the content of a field that was never written

HandlePtrs == 1..MaxHandles     \* addresses of TrayHandle structs
ItemAddrs == 1..MaxHandles      \* addresses of NSStatusItem objects
TargetAddrs == 1..MaxHandles    \* addresses of TrayTarget objects

\* OCaml closures the host passes to set_on_click.
Callbacks == {1, 2}

\* OCaml strings are byte sequences; 0 is NUL, 255 never occurs in UTF-8.
Titles == {<<65>>, <<65, 0, 66>>, <<255>>}
NilStr == <<-1>>                \* a nil NSString*
NoImage == <<>>                 \* a nil NSImage*
ImagePaths == {<<80>>, <<81>>}
ImageFiles == {<<80>>}          \* the paths that hold a loadable image
MaxAlerts == 2                  \* calls of mlui_show_alert per build
MaxStepHandles == 1             \* handles made when calls run by statement
\* Alert messages, all valid UTF-8: "H", "H\000I", "I".
Messages == {<<72>>, <<72, 0, 73>>, <<73>>}

\* OCaml values crossing the FFI boundary.
Val_unit == [tag |-> "unit", data |-> 0]
None == [tag |-> "int", data |-> <<>>]
Some(x) == [tag |-> "block", data |-> x]
NoHandleArg == [tag |-> "none", data |-> 0]      \* the call takes no handle
NoReturn == [tag |-> "noreturn", data |-> 0]     \* the call did not return
Is_block(v) == v.tag = "block"
Field0(v) == v.data

\* No dialog on screen.
NoDialog == [messageText |-> "", informativeText |-> <<>>, buttons |-> <<>>]

VARIABLES
  handle,    \* TrayHandle structs: [allocated pointers -> struct]
  item,      \* NSStatusItem objects with their button, by address
  target,    \* TrayTarget objects, by address
  roots,     \* addresses of TrayTarget.callback registered as global roots
  nsApp,     \* the NSApp global: "nil", or the activation policy in force
  crashed,   \* the process died (bad pointer, uncaught exception)
  lastOp,    \* the call just made: name, arguments, return value, effects
  hist,      \* history per handle: callback last installed, remove calls
  stub,      \* the same calls made on a build without __APPLE__
  alert,     \* mlui_show_alert: the modal session and the stub's output
  pc         \* the calls in progress, innermost first, statement by statement

vars ==
  <<handle, item, target, roots, nsApp, crashed, lastOp, hist, stub, alert,
    pc>>

\* The program state as one record, the argument of the C functions below.
World ==
  [handle |-> handle, item |-> item, target |-> target, roots |-> roots,
   nsApp |-> nsApp, crashed |-> crashed]

FreeItem ==
  [rc |-> 0, inBar |-> FALSE, visible |-> FALSE, title |-> <<>>,
   image |-> NoImage, hidden |-> FALSE, fitted |-> FALSE,
   btnTarget |-> nil, btnAction |-> "nil"]

FreeTarget == [rc |-> 0, callback |-> NoCallback]

\* The effects of a call that did nothing.
E0 ==
  [deref |-> {}, touched |-> {}, pinned |-> <<>>, unpinned |-> <<>>,
   released |-> <<>>, invoked |-> <<>>, allocated |-> <<>>]

Crash(w) == [w EXCEPT !.crashed = TRUE]

mlui_wrap_pointer(ptr) == [tag |-> "Abstract", data |-> ptr]

mlui_unwrap_pointer(wrapped) == wrapped.data

\* String_val: the C string of an OCaml string ends at its first NUL byte.
RECURSIVE String_val(_)
String_val(s) ==
  IF s = <<>> \/ Head(s) = 0 THEN <<>>
  ELSE <<Head(s)>> \o String_val(Tail(s))

\* stringWithCString:encoding:NSUTF8StringEncoding is nil when the bytes are
\* not UTF-8 (the byte alphabet here is ASCII plus 255).
stringWithCString(c) ==
  IF \A k \in 1..Len(c) : c[k] < 128 THEN c ELSE NilStr

mlui_make_image_from_path_unchecked(image_path) ==
  stringWithCString(image_path)

mlui_make_image_from_path(image_path) ==
  LET nsImagePath == stringWithCString(image_path)
  IN IF nsImagePath \in ImageFiles THEN nsImagePath ELSE NoImage

\* statusItemWithLength: a new item in the status bar with an empty button;
\* after [statusItem retain] and the pool drain the handle holds the one
\* reference.
NewStatusItem ==
  [rc |-> 1, inBar |-> TRUE, visible |-> TRUE, title |-> <<>>,
   image |-> NoImage, hidden |-> FALSE, fitted |-> TRUE,
   btnTarget |-> nil, btnAction |-> "nil"]

\* [[TrayTarget alloc] init]
TrayTarget_init == [rc |-> 1, callback |-> NoCallback]

PlaceholderEmpty == <<>>

\* The title make gives an item created without an image.
Placeholder == <<32>>

\* hp is the address malloc returns, si the address of the new status item.
mlui_tray_make(w, vImagePath, hp, si) ==
  LET app == IF w.nsApp = "nil" THEN "accessory" ELSE w.nsApp
      it0 == [NewStatusItem EXCEPT !.visible = TRUE]
      nsImage ==
        IF Is_block(vImagePath)
          THEN mlui_make_image_from_path(String_val(Field0(vImagePath)))
          ELSE NoImage
      it1 ==
        IF Is_block(vImagePath)
          THEN IF nsImage # NoImage
                 THEN [it0 EXCEPT !.image = nsImage, !.fitted = TRUE]
                 ELSE it0
          ELSE [it0 EXCEPT !.title = Placeholder, !.fitted = TRUE]
      h == [statusItem |-> si, target |-> nil, removed |-> 0]
  IN [w |-> [w EXCEPT !.nsApp = app,
                      !.item[si] = it1,
                      !.handle = (hp :> h) @@ w.handle],
      ret |-> mlui_wrap_pointer(hp),
      eff |-> [E0 EXCEPT !.deref = {hp},
                         !.touched = {<<"statusBar", 0>>, <<"item", si>>}]]

UsableNoNullCheck(w, hp) ==
  hp = NULL \/ (w.handle[hp].removed = 0 /\ w.handle[hp].statusItem # nil)

\* The test every primitive makes before it touches anything:
\* handle && !handle->removed && handle->statusItem
Usable(w, hp) ==
  hp # NULL /\ w.handle[hp].removed = 0 /\ w.handle[hp].statusItem # nil

\* A read through a pointer that is no TrayHandle struct.
BadDeref(w, hp) ==
  [w |-> Crash(w), ret |-> NoReturn, eff |-> [E0 EXCEPT !.deref = {hp}]]

\* The call returned ret having touched nothing but (perhaps) the struct.
Nothing(w, hp, ret) ==
  [w |-> w, ret |-> ret,
   eff |-> [E0 EXCEPT !.deref = IF hp # NULL THEN {hp} ELSE {}]]

\* nilTitleRaises: whether AppKit raises when the button is given a nil
\* title (the API declares the title nonnull; otherwise it shows no text).
mlui_tray_set_title(w, vTrayHandle, vTitle, nilTitleRaises) ==
  LET hp == mlui_unwrap_pointer(vTrayHandle)
  IN IF Usable(w, hp)
       THEN IF hp \notin DOMAIN w.handle THEN BadDeref(w, hp) ELSE
            LET si == w.handle[hp].statusItem
                nsTitle == stringWithCString(String_val(vTitle))
                it1 == [w.item[si] EXCEPT !.image = NoImage, !.fitted = FALSE]
                it2 == [it1 EXCEPT
                          !.title = IF nsTitle = NilStr THEN <<>> ELSE nsTitle,
                          !.hidden = FALSE, !.visible = TRUE, !.fitted = TRUE]
                eff == [E0 EXCEPT !.deref = {hp}, !.touched = {<<"item", si>>}]
            IN IF w.item[si].rc = 0
                 THEN [w |-> Crash(w), ret |-> NoReturn, eff |-> eff]
               ELSE IF nsTitle = NilStr /\ nilTitleRaises
                 THEN [w |-> Crash([w EXCEPT !.item[si] = it1]),
                       ret |-> NoReturn, eff |-> eff]
               ELSE [w |-> [w EXCEPT !.item[si] = it2],
                     ret |-> vTrayHandle, eff |-> eff]
       ELSE \* the failure log formats handle->statusItem with %@
            IF hp # NULL /\ w.handle[hp].statusItem # nil
              THEN LET si == w.handle[hp].statusItem
                       eff == [E0 EXCEPT !.deref = {hp},
                                         !.touched = {<<"item", si>>}]
                   IN IF w.item[si].rc = 0
                        THEN [w |-> Crash(w), ret |-> NoReturn, eff |-> eff]
                        ELSE [w |-> w, ret |-> vTrayHandle, eff |-> eff]
              ELSE Nothing(w, hp, vTrayHandle)

UnpinOnRemoveForgotten(tg, rts, t) ==
  [tg |-> tg, roots |-> rts, unpinned |-> <<>>]

\* remove, lines 171-174: take the callback slot out of the global roots.
UnpinOnRemove(tg, rts, t) ==
  IF tg.callback # NoCallback
    THEN [tg |-> [tg EXCEPT !.callback = NoCallback],
          roots |-> rts \ {t},
          unpinned |-> <<[addr |-> t, cb |-> tg.callback,
                          wasRoot |-> t \in rts]>>]
    ELSE [tg |-> tg, roots |-> rts, unpinned |-> <<>>]

MarkRemovedForgotten(h) == h

MarkRemovedKeepsItem(h) == [h EXCEPT !.removed = 1]

\* remove, lines 178-179
MarkRemoved(h) == [h EXCEPT !.statusItem = nil, !.removed = 1]

mlui_tray_remove(w, vTrayHandle) ==
  LET hp == mlui_unwrap_pointer(vTrayHandle)
  IN IF Usable(w, hp)
       THEN IF hp \notin DOMAIN w.handle THEN BadDeref(w, hp) ELSE
            LET si == w.handle[hp].statusItem
                t == w.handle[hp].target
                \* removeStatusItem:, then release: the last reference goes
                items1 == [w.item EXCEPT ![si] = FreeItem]
                u == IF t # nil THEN UnpinOnRemove(w.target[t], w.roots, t)
                     ELSE [tg |-> FreeTarget, roots |-> w.roots,
                           unpinned |-> <<>>]
                \* [handle->target release]: the object is deallocated, and
                \* a root still registered on its slot dangles
                targets1 == IF t # nil THEN [w.target EXCEPT ![t] = FreeTarget]
                            ELSE w.target
                h1 == MarkRemoved(IF t # nil
                                    THEN [w.handle[hp] EXCEPT !.target = nil]
                                    ELSE w.handle[hp])
                eff == [E0 EXCEPT
                          !.deref = {hp},
                          !.touched = {<<"statusBar", 0>>, <<"item", si>>}
                                      \cup (IF t # nil THEN {<<"target", t>>}
                                            ELSE {}),
                          !.unpinned = u.unpinned,
                          !.released =
                             <<<<"item", si>>>> \o
                             (IF t # nil THEN <<<<"target", t>>>> ELSE <<>>)]
            IN IF w.item[si].rc = 0 \/ (t # nil /\ w.target[t].rc = 0)
                 THEN [w |-> Crash(w), ret |-> NoReturn, eff |-> eff]
                 ELSE [w |-> [w EXCEPT !.item = items1, !.roots = u.roots,
                                       !.target = targets1,
                                       !.handle[hp] = h1],
                       ret |-> Val_unit, eff |-> eff]
       ELSE Nothing(w, hp, Val_unit)

StoreCallbackKeepsFirst(tg, rts, t, vCallback) ==
  IF tg.callback # NoCallback
    THEN [tg |-> tg, roots |-> rts, unpinned |-> <<>>, pinned |-> <<>>]
    ELSE [tg |-> [tg EXCEPT !.callback = vCallback], roots |-> rts \cup {t},
          unpinned |-> <<>>,
          pinned |-> <<[addr |-> t, cb |-> vCallback, wasRoot |-> t \in rts]>>]

\* set_on_click, lines 199-204: unregister the slot if it holds a callback,
\* store the new one, register the slot.
StoreCallback(tg, rts, t, vCallback) ==
  LET old == tg.callback
      rts1 == IF old # NoCallback THEN rts \ {t} ELSE rts
  IN [tg |-> [tg EXCEPT !.callback = vCallback],
      roots |-> rts1 \cup {t},
      unpinned |-> IF old # NoCallback
                     THEN <<[addr |-> t, cb |-> old, wasRoot |-> t \in rts]>>
                     ELSE <<>>,
      pinned |-> <<[addr |-> t, cb |-> vCallback, wasRoot |-> t \in rts1]>>]

\* A single adapter kept for all handles instead of one per handle.
TargetOfShared(w, hp, tnew) ==
  LET used == {a \in DOMAIN w.target : w.target[a].rc > 0}
  IN IF used # {} THEN CHOOSE a \in used : \A b \in used : a <= b ELSE tnew

\* set_on_click, lines 195-197: the handle's adapter, created on first use.
\* tnew is the address [TrayTarget alloc] returns when it is called.
TargetOf(w, hp, tnew) ==
  IF w.handle[hp].target = nil THEN tnew ELSE w.handle[hp].target

mlui_tray_set_on_click(w, vTrayHandle, vCallback, tnew) ==
  LET hp == mlui_unwrap_pointer(vTrayHandle)
  IN IF Usable(w, hp)
       THEN IF hp \notin DOMAIN w.handle THEN BadDeref(w, hp) ELSE
            LET si == w.handle[hp].statusItem
                t == TargetOf(w, hp, tnew)
                tg0 == IF w.handle[hp].target = nil /\ t = tnew
                         THEN TrayTarget_init ELSE w.target[t]
                s == StoreCallback(tg0, w.roots, t, vCallback)
                it1 == [w.item[si] EXCEPT !.btnTarget = t,
                                          !.btnAction = "handleClick:"]
                eff == [E0 EXCEPT
                          !.deref = {hp},
                          !.touched = {<<"item", si>>, <<"target", t>>},
                          !.unpinned = s.unpinned,
                          !.pinned = s.pinned,
                          !.allocated = IF w.handle[hp].target = nil
                                          THEN <<<<"target", t>>>> ELSE <<>>]
            IN IF w.item[si].rc = 0 \/ tg0.rc = 0
                 THEN [w |-> Crash(w), ret |-> NoReturn, eff |-> eff]
                 ELSE [w |-> [w EXCEPT !.handle[hp].target = t,
                                       !.target[t] = s.tg,
                                       !.roots = s.roots,
                                       !.item[si] = it1],
                       ret |-> Val_unit, eff |-> eff]
       ELSE Nothing(w, hp, Val_unit)

handleClickForgetsCall(w, t) ==
  [w |-> w, ret |-> Val_unit, eff |-> [E0 EXCEPT !.touched = {<<"target", t>>}]]

\* -[TrayTarget handleClick:] on the object at address t.
handleClick(w, t) ==
  IF w.target[t].callback # NoCallback
    THEN [w |-> w, ret |-> Val_unit,
          eff |-> [E0 EXCEPT
                     !.touched = {<<"target", t>>},
                     !.invoked = <<[fn |-> w.target[t].callback,
                                    arg |-> Val_unit,
                                    rooted |-> t \in w.roots]>>]]
    ELSE [w |-> w, ret |-> Val_unit,
          eff |-> [E0 EXCEPT !.touched = {<<"target", t>>}]]

\* AppKit delivers a click on the button of status item si: it sends the
\* button's action to the button's target, when both are set.
click(w, si) ==
  LET t == w.item[si].btnTarget
  IN IF t = nil \/ w.item[si].btnAction = "nil"
       THEN [w |-> w, ret |-> Val_unit, eff |-> E0]
     ELSE IF w.target[t].rc = 0
       THEN [w |-> Crash(w), ret |-> NoReturn,
             eff |-> [E0 EXCEPT !.touched = {<<"target", t>>}]]
     ELSE handleClick(w, t)

----------------------------------------------------------------------------
\* Objects are named in the order of their creation: malloc never gets a
\* struct back, so the k-th make gets struct k, and the status item it
\* creates is item k; the adapter set_on_click allocates for a struct is
\* named after the struct.  A released object keeps its name, so a later
\* use of it is seen as a use of a dead object.
Lowest(S) == CHOOSE x \in S : \A y \in S : x <= y
FreeHandlePtrs(w) == HandlePtrs \ DOMAIN w.handle
NewStatusItemAddr(hp) == hp
NewTargetAddr(hp) == hp

\* Whether AppKit raises matters only for a title that converts to nil.
NilTitleOutcomes(vTitle) ==
  IF stringWithCString(String_val(vTitle)) = NilStr THEN BOOLEAN ELSE {FALSE}

\* The handle values the host can pass: the ones make returned, and a
\* wrapped null pointer.
HandleValues == {mlui_wrap_pointer(p) : p \in DOMAIN handle \cup {NULL}}

Min(a, b) == IF a < b THEN a ELSE b

\* History of a remove call on the struct at hp: that it was called, how
\* often a status item was released through the struct (counted to 2), and
\* that the callback installed on it is installed no more.
RemoveHist(h, hp, eff) ==
  IF hp = NULL THEN h
  ELSE IF \E k \in 1..Len(eff.released) : eff.released[k][1] = "item"
    THEN [h EXCEPT !.removeCalled[hp] = TRUE, !.releases[hp] = Min(2, @ + 1),
                   !.lastSet[hp] = NoCallback]
    ELSE [h EXCEPT !.removeCalled[hp] = TRUE]

Apply(r, op, v, arg, h) ==
  /\ handle' = r.w.handle
  /\ item' = r.w.item
  /\ target' = r.w.target
  /\ roots' = r.w.roots
  /\ nsApp' = r.w.nsApp
  /\ crashed' = r.w.crashed
  /\ lastOp' = [op |-> op, v |-> v, arg |-> arg, ret |-> r.ret, eff |-> r.eff]
  /\ hist' = h

Init ==
  /\ handle = <<>>
  /\ item = [a \in ItemAddrs |-> FreeItem]
  /\ target = [a \in TargetAddrs |-> FreeTarget]
  /\ roots = {}
  /\ nsApp = "nil"      \* the host has created no NSApplication yet
  /\ crashed = FALSE
  /\ lastOp = [op |-> "init", v |-> NoHandleArg, arg |-> None,
               ret |-> Val_unit, eff |-> E0]
  /\ hist = [lastSet |-> [p \in HandlePtrs |-> NoCallback],
             releases |-> [p \in HandlePtrs |-> 0],
             removeCalled |-> [p \in HandlePtrs |-> FALSE],
             targets |-> [p \in HandlePtrs |-> 0]]
  /\ stub = [blocks |-> 0, op |-> "init", v |-> NoHandleArg,
             ret |-> Val_unit, eff |-> E0]
  /\ alert = [pc |-> "idle", dialog |-> NoDialog, vMessage |-> <<>>,
              calls |-> 0, dismissals |-> 0, returns |-> 0, ret |-> NoReturn,
              stdout |-> <<>>, stubMessage |-> <<>>, stubReturns |-> 0]
  /\ pc = <<>>

Make ==
  /\ ~crashed
  /\ FreeHandlePtrs(World) # {}
  /\ \E vImagePath \in {None} \cup {Some(p) : p \in ImagePaths} :
       LET hp == Lowest(FreeHandlePtrs(World))
           r == mlui_tray_make(World, vImagePath, hp, NewStatusItemAddr(hp))
       IN Apply(r, "make", r.ret, vImagePath, hist)

SetTitle ==
  /\ ~crashed
  /\ \E v \in HandleValues, vTitle \in Titles :
     \E nilTitleRaises \in NilTitleOutcomes(vTitle) :
       LET r == mlui_tray_set_title(World, v, vTitle, nilTitleRaises)
       IN Apply(r, "set_title", v, [tag |-> "string", data |-> vTitle], hist)

Remove ==
  /\ ~crashed
  /\ \E v \in HandleValues :
       LET r == mlui_tray_remove(World, v)
       IN Apply(r, "remove", v, None,
                RemoveHist(hist, mlui_unwrap_pointer(v), r.eff))

SetOnClick ==
  /\ ~crashed
  /\ \E v \in HandleValues, vCallback \in Callbacks :
       LET hp == mlui_unwrap_pointer(v)
           r == mlui_tray_set_on_click(World, v, vCallback, NewTargetAddr(hp))
           live == hp # NULL /\ handle[hp].removed = 0
       IN Apply(r, "set_on_click", v, [tag |-> "closure", data |-> vCallback],
                IF live
                  THEN [hist EXCEPT
                          !.lastSet[hp] = vCallback,
                          !.targets[hp] =
                             Min(2, @ + Len(r.eff.allocated))]
                  ELSE hist)

\* The user clicks a status item that is in the status bar.
Click ==
  /\ ~crashed
  /\ \E si \in ItemAddrs :
       /\ item[si].rc > 0 /\ item[si].inBar
       /\ LET r == click(World, si)
          IN Apply(r, "click", NoHandleArg,
                   [tag |-> "item", data |-> si], hist)

\* What the specification of the native build leaves alone.
others == <<stub, alert, pc>>

Next ==
  \/ Make /\ UNCHANGED others
  \/ SetTitle /\ UNCHANGED others
  \/ Remove /\ UNCHANGED others
  \/ SetOnClick /\ UNCHANGED others
  \/ Click /\ UNCHANGED others

Spec == Init /\ [][Next]_vars

----------------------------------------------------------------------------
(***************************************************************************)
(* The primitives statement by statement.  StepSpec runs set_on_click,     *)
(* remove and handleClick: one statement at a time, so that the states     *)
(* inside a call are states of the model, and with the callback that a     *)
(* click invokes free to call set_on_click or remove itself before it      *)
(* returns.  pc is the call stack.  Everything runs on the main thread: a  *)
(* click is delivered only when no call is in progress.                    *)
(***************************************************************************)
SetOnClickProgramStoreFirst == <<"alloc", "store", "unroot", "root", "wire">>

\* set_on_click, lines 195-197, 200-202, 203, 204, 207-208
SetOnClickProgram == <<"alloc", "unroot", "store", "root", "wire">>

RemoveProgramTargetFirst ==
  <<"unroot", "clear", "releaseTarget", "nilTarget", "detach", "releaseItem",
    "nilItem", "mark">>

\* remove, lines 167, 168, 171-172, 173, 175, 176, 178, 179
RemoveProgram ==
  <<"detach", "releaseItem", "unroot", "clear", "releaseTarget", "nilTarget",
    "nilItem", "mark">>

handleClickProgramCallsAgain == <<"test", "call", "test", "call">>

\* handleClick:, line 26 (the test) and line 27 (the call); nothing follows
handleClickProgram == <<"test", "call">>

\* One statement of set_on_click or remove on the struct at hp.
Exec(w, stmt, hp, vCallback) ==
  LET si == w.handle[hp].statusItem
      t == w.handle[hp].target
      deadItem == IF si = nil THEN FALSE ELSE w.item[si].rc = 0
      deadTarget == IF t = nil THEN FALSE ELSE w.target[t].rc = 0
  IN CASE stmt = "alloc" ->
            IF t = nil
              THEN [w EXCEPT !.target[NewTargetAddr(hp)] = TrayTarget_init,
                             !.handle[hp].target = NewTargetAddr(hp)]
              ELSE w
       [] stmt = "unroot" ->
            IF t = nil THEN w
            ELSE IF deadTarget THEN Crash(w)
            ELSE IF w.target[t].callback # NoCallback
              THEN [w EXCEPT !.roots = @ \ {t}]
            ELSE w
       [] stmt = "clear" ->
            IF t = nil THEN w
            ELSE IF deadTarget THEN Crash(w)
            ELSE [w EXCEPT !.target[t].callback = NoCallback]
       [] stmt = "store" ->
            IF t = nil \/ deadTarget THEN Crash(w)
            ELSE [w EXCEPT !.target[t].callback = vCallback]
       [] stmt = "root" ->
            IF t = nil THEN Crash(w) ELSE [w EXCEPT !.roots = @ \cup {t}]
       [] stmt = "wire" ->
            IF si = nil THEN w
            ELSE IF deadItem THEN Crash(w)
            ELSE [w EXCEPT !.item[si].btnTarget = t,
                           !.item[si].btnAction = "handleClick:"]
       [] stmt = "detach" ->
            IF si = nil THEN w
            ELSE IF deadItem THEN Crash(w)
            ELSE [w EXCEPT !.item[si].inBar = FALSE]
       [] stmt = "releaseItem" ->
            IF si = nil THEN w
            ELSE IF deadItem THEN Crash(w)
            ELSE [w EXCEPT !.item[si] = FreeItem]
       [] stmt = "releaseTarget" ->
            IF t = nil THEN w
            ELSE IF deadTarget THEN Crash(w)
            ELSE [w EXCEPT !.target[t] = FreeTarget]
       [] stmt = "nilTarget" -> [w EXCEPT !.handle[hp].target = nil]
       [] stmt = "nilItem" -> [w EXCEPT !.handle[hp].statusItem = nil]
       [] OTHER -> [w EXCEPT !.handle[hp].removed = 1]

\* The frame of a call that has just been entered.
Frame(op, v, arg, todo, self) ==
  [op |-> op, v |-> v, arg |-> arg, todo |-> todo, self |-> self,
   w0 |-> World, running |-> FALSE, calls |-> <<>>, invoked |-> <<>>,
   touchedAfter |-> {}]

\* The host is running: at top level, or inside a callback that has made
\* no call yet.
HostRuns ==
  /\ ~crashed
  /\ IF pc = <<>> THEN TRUE
     ELSE Head(pc).op = "click" /\ Head(pc).running /\ Head(pc).calls = <<>>

\* The stack with a new innermost frame; the callback that made the call
\* has it noted.
Push(f) ==
  IF pc = <<>> THEN <<f>>
  ELSE <<f, [Head(pc) EXCEPT !.calls = Append(@, [op |-> f.op, v |-> f.v,
                                                    arg |-> f.arg])]>>
       \o Tail(pc)

SetWorld(w) ==
  /\ handle' = w.handle
  /\ item' = w.item
  /\ target' = w.target
  /\ roots' = w.roots
  /\ nsApp' = w.nsApp
  /\ crashed' = w.crashed

StepMake ==
  /\ pc = <<>>
  /\ Len(handle) < MaxStepHandles
  /\ Make
  /\ UNCHANGED others

\* set_on_click is entered: lines 191-193, the test of the handle.
BeginSetOnClick ==
  /\ HostRuns
  /\ \E v \in HandleValues, vCallback \in Callbacks :
       pc' = Push(Frame("set_on_click", v, vCallback,
                        IF Usable(World, mlui_unwrap_pointer(v))
                          THEN SetOnClickProgram ELSE <<>>,
                        mlui_unwrap_pointer(v)))
  /\ UNCHANGED <<handle, item, target, roots, nsApp, crashed, lastOp, hist,
                 stub, alert>>

\* remove is entered: lines 164-166, the test of the handle.
BeginRemove ==
  /\ HostRuns
  /\ \E v \in HandleValues :
       pc' = Push(Frame("remove", v, NoCallback,
                        IF Usable(World, mlui_unwrap_pointer(v))
                          THEN RemoveProgram ELSE <<>>,
                        mlui_unwrap_pointer(v)))
  /\ UNCHANGED <<handle, item, target, roots, nsApp, crashed, lastOp, hist,
                 stub, alert>>

\* The next statement of the innermost set_on_click or remove.
StepStatement ==
  /\ ~crashed
  /\ pc # <<>>
  /\ Head(pc).op \in {"set_on_click", "remove"}
  /\ Head(pc).todo # <<>>
  /\ SetWorld(Exec(World, Head(Head(pc).todo), Head(pc).self, Head(pc).arg))
  /\ pc' = <<[Head(pc) EXCEPT !.todo = Tail(@)]>> \o Tail(pc)
  /\ UNCHANGED <<lastOp, hist, stub, alert>>

\* What the call of frame f does when made in one step.
AtomicCall(f) ==
  IF f.op = "remove" THEN mlui_tray_remove(f.w0, f.v)
  ELSE mlui_tray_set_on_click(f.w0, f.v, f.arg,
                              NewTargetAddr(mlui_unwrap_pointer(f.v)))

\* The history after the call of frame f, kept as Remove and SetOnClick
\* keep it.
HistAfter(f) ==
  LET hp == mlui_unwrap_pointer(f.v)
      r == AtomicCall(f)
  IN IF f.op = "remove" THEN RemoveHist(hist, hp, r.eff)
     ELSE IF hp # NULL /\ f.w0.handle[hp].removed = 0
       THEN [hist EXCEPT !.lastSet[hp] = f.arg,
                         !.targets[hp] = Min(2, @ + Len(r.eff.allocated))]
     ELSE hist

\* The innermost set_on_click or remove returns Val_unit.
Return ==
  /\ ~crashed
  /\ pc # <<>>
  /\ Head(pc).op \in {"set_on_click", "remove"}
  /\ Head(pc).todo = <<>>
  /\ pc' = Tail(pc)
  /\ lastOp' = [op |-> Head(pc).op, v |-> Head(pc).v,
                arg |-> IF Head(pc).op = "remove" THEN None
                        ELSE [tag |-> "closure", data |-> Head(pc).arg],
                ret |-> Val_unit, eff |-> AtomicCall(Head(pc)).eff]
  /\ hist' = HistAfter(Head(pc))
  /\ UNCHANGED <<handle, item, target, roots, nsApp, crashed, stub, alert>>

\* The user clicks a status item that is in the status bar, and AppKit
\* sends the button's action to the button's target.
BeginClick ==
  /\ ~crashed
  /\ pc = <<>>
  /\ \E si \in ItemAddrs :
       /\ item[si].rc > 0 /\ item[si].inBar
       /\ item[si].btnTarget # nil
       /\ item[si].btnAction # "nil"
       /\ pc' = <<Frame("click", NoHandleArg, NoCallback, handleClickProgram,
                        item[si].btnTarget)>>
       /\ lastOp' = [op |-> "click", v |-> NoHandleArg,
                     arg |-> [tag |-> "item", data |-> si],
                     ret |-> NoReturn, eff |-> E0]
  /\ UNCHANGED <<handle, item, target, roots, nsApp, crashed, hist, stub,
                 alert>>

\* The frame of handleClick: after its next statement, and whether the
\* statement read a released object.
ExecClick(w, f) ==
  LET t == f.self
      dead == w.target[t].rc = 0
      cb == w.target[t].callback
      after == IF f.invoked = <<>> THEN {}
               ELSE {[addr |-> t, alive |-> ~dead, rooted |-> t \in w.roots]}
      f1 == [f EXCEPT !.touchedAfter = @ \cup after]
  IN IF dead THEN [f |-> f1, crash |-> TRUE]
     ELSE IF Head(f.todo) = "test"
       THEN [f |-> [f1 EXCEPT !.todo = IF cb # NoCallback THEN Tail(@)
                                       ELSE <<>>],
             crash |-> FALSE]
     ELSE [f |-> [f1 EXCEPT !.todo = Tail(@),
                            !.arg = cb,
                            !.running = TRUE,
                            !.calls = <<>>,
                            !.invoked = Append(@, [fn |-> cb,
                                                   arg |-> Val_unit,
                                                   rooted |-> t \in w.roots])],
           crash |-> FALSE]

\* The next statement of handleClick.
StepClick ==
  /\ ~crashed
  /\ pc # <<>>
  /\ Head(pc).op = "click"
  /\ ~Head(pc).running
  /\ Head(pc).todo # <<>>
  /\ pc' = <<ExecClick(World, Head(pc)).f>> \o Tail(pc)
  /\ crashed' = ExecClick(World, Head(pc)).crash
  /\ UNCHANGED <<handle, item, target, roots, nsApp, lastOp, hist, stub,
                 alert>>

\* The callback returns to caml_callback, and that to handleClick.
CallbackReturns ==
  /\ ~crashed
  /\ pc # <<>>
  /\ Head(pc).op = "click"
  /\ Head(pc).running
  /\ pc' = <<[Head(pc) EXCEPT !.running = FALSE]>> \o Tail(pc)
  /\ UNCHANGED <<handle, item, target, roots, nsApp, crashed, lastOp, hist,
                 stub, alert>>

\* handleClick returns to AppKit.
ReturnClick ==
  /\ ~crashed
  /\ pc # <<>>
  /\ Head(pc).op = "click"
  /\ ~Head(pc).running
  /\ Head(pc).todo = <<>>
  /\ pc' = Tail(pc)
  /\ lastOp' = [op |-> "click", v |-> NoHandleArg, arg |-> lastOp.arg,
                ret |-> Val_unit,
                eff |-> [E0 EXCEPT !.touched = {<<"target", Head(pc).self>>},
                                   !.invoked = Head(pc).invoked]]
  /\ UNCHANGED <<handle, item, target, roots, nsApp, crashed, hist, stub,
                 alert>>

StepNext ==
  \/ StepMake
  \/ BeginSetOnClick
  \/ BeginRemove
  \/ StepStatement
  \/ Return
  \/ BeginClick
  \/ StepClick
  \/ CallbackReturns
  \/ ReturnClick

StepSpec == Init /\ [][StepNext]_vars

----------------------------------------------------------------------------
(***************************************************************************)
(* mlui_show_alert (cocoa_hello.c).  The native primitive builds an        *)
(* NSAlert and runs it modally: the call is inside runModal until the user *)
(* dismisses the dialog.  The stub prints one line and returns.  AlertSpec *)
(* has both builds side by side; the tray is left alone.                   *)
(***************************************************************************)
tray ==
  <<handle, item, target, roots, nsApp, crashed, lastOp, hist, stub, pc>>

\* The NSAlert of lines 17-20.
NSAlert(vMessage) ==
  [messageText |-> "Hello from Cocoa!",
   informativeText |-> stringWithCString(String_val(vMessage)),
   buttons |-> <<"OK">>]

\* printf("Alert (not on macOS): %s\n", String_val(vMessage))
Notice(vMessage) ==
  [format |-> "Alert (not on macOS): %s\n", arg |-> String_val(vMessage)]

\* Lines 8-21: the call reaches [alert runModal] and stays there.
ShowAlert ==
  /\ alert.pc = "idle"
  /\ alert.calls < MaxAlerts
  /\ \E vMessage \in Messages :
       alert' = [alert EXCEPT !.pc = "runModal",
                              !.dialog = NSAlert(vMessage),
                              !.vMessage = vMessage,
                              !.calls = @ + 1,
                              !.ret = NoReturn]
  /\ UNCHANGED tray

\* The user presses OK: runModal returns, then line 24 returns Val_unit.
Dismiss ==
  /\ alert.pc = "runModal"
  /\ alert' = [alert EXCEPT !.pc = "idle",
                            !.dialog = NoDialog,
                            !.dismissals = @ + 1,
                            !.returns = @ + 1,
                            !.ret = Val_unit]
  /\ UNCHANGED tray

\* Lines 29-33, the stub: one line on stdout, then Val_unit.
StubShowAlert ==
  /\ alert.stubReturns < MaxAlerts
  /\ \E vMessage \in Messages :
       alert' = [alert EXCEPT !.stdout = Append(@, Notice(vMessage)),
                              !.stubMessage = vMessage,
                              !.stubReturns = @ + 1]
  /\ UNCHANGED tray

AlertNext == ShowAlert \/ Dismiss \/ StubShowAlert

AlertSpec == Init /\ [][AlertNext]_vars

----------------------------------------------------------------------------
(***************************************************************************)
(* The build without __APPLE__ (tray.c, lines 217-241).  The four stubs    *)
(* take no state and keep none.  StubSpec makes every call on both builds  *)
(* at once: the host calls the native primitive and the stub with the same *)
(* arguments, the k-th handle of one build standing for the k-th handle of *)
(* the other.                                                              *)
(***************************************************************************)
\* caml_alloc(1, Abstract_tag) at heap block blk; its one field is never
\* written.
stub_mlui_tray_make(vImagePath, blk) ==
  [ret |-> [tag |-> "Abstract", data |-> Uninit, block |-> blk], eff |-> E0]

stub_mlui_tray_set_title_unit(vTrayHandle, vTitle) ==
  [ret |-> Val_unit, eff |-> E0]

stub_mlui_tray_set_title(vTrayHandle, vTitle) ==
  [ret |-> vTrayHandle, eff |-> E0]

stub_mlui_tray_remove(vTrayHandle) == [ret |-> Val_unit, eff |-> E0]

stub_mlui_tray_set_on_click(vTrayHandle, vCallback) ==
  [ret |-> Val_unit, eff |-> E0]

\* The stub build's handle value that stands for the native value v: the
\* block the k-th stub make returned, or a block the host corrupted.
StubHandle(v) ==
  [tag |-> "Abstract",
   data |-> IF mlui_unwrap_pointer(v) = NULL THEN NULL ELSE Uninit,
   block |-> mlui_unwrap_pointer(v)]

\* The stub called as the native primitive was in the step being taken.
StubCall(op) ==
  LET r == IF op.op = "make"
             THEN stub_mlui_tray_make(op.arg, stub.blocks + 1)
           ELSE IF op.op = "set_title"
             THEN stub_mlui_tray_set_title(StubHandle(op.v), op.arg.data)
           ELSE IF op.op = "remove"
             THEN stub_mlui_tray_remove(StubHandle(op.v))
           ELSE stub_mlui_tray_set_on_click(StubHandle(op.v), op.arg.data)
  IN [blocks |-> IF op.op = "make" THEN stub.blocks + 1 ELSE stub.blocks,
      op |-> op.op,
      v |-> IF op.op = "make" THEN r.ret ELSE StubHandle(op.v),
      ret |-> r.ret,
      eff |-> r.eff]

BothMake == Make /\ stub' = StubCall(lastOp') /\ UNCHANGED <<alert, pc>>
BothSetTitle == SetTitle /\ stub' = StubCall(lastOp') /\ UNCHANGED <<alert, pc>>
BothRemove == Remove /\ stub' = StubCall(lastOp') /\ UNCHANGED <<alert, pc>>
BothSetOnClick == SetOnClick /\ stub' = StubCall(lastOp') /\ UNCHANGED <<alert, pc>>
\* Only the native build has a status item to click.
NativeClick == Click /\ UNCHANGED <<stub, alert, pc>>

StubNext ==
  BothMake \/ BothSetTitle \/ BothRemove \/ BothSetOnClick \/ NativeClick

StubSpec == Init /\ [][StubNext]_vars

----------------------------------------------------------------------------
HandleOps == {"set_title", "set_on_click", "remove"}

\* The call just made registered, unregistered and released nothing and
\* messaged no native object.
NoNativeEffect(eff) ==
  /\ eff.touched = {}
  /\ eff.pinned = <<>>
  /\ eff.unpinned = <<>>
  /\ eff.released = <<>>
  /\ eff.invoked = <<>>

\* C1: once remove has been called on a handle, the handle stays Removed
\* for ever, and every later set_title, set_on_click or remove on it leaves
\* the handle structs, the status items, the target adapters and the global
\* roots as they were, messages no native object and does not crash.
C1_RemovedIsInert ==
  [][\A hp \in DOMAIN handle :
       hist.removeCalled[hp] =>
         /\ handle[hp].removed = 1
         /\ handle'[hp] = handle[hp]
         /\ (lastOp'.v = mlui_wrap_pointer(hp) /\ lastOp'.op \in HandleOps) =>
              /\ handle' = handle
              /\ item' = item
              /\ target' = target
              /\ roots' = roots
              /\ ~crashed'
              /\ NoNativeEffect(lastOp'.eff)]_vars

\* A set_on_click has just been made on a handle remove was called on.
C1_Witness ==
  \E hp \in DOMAIN handle :
    /\ hist.removeCalled[hp]
    /\ lastOp.op = "set_on_click"
    /\ lastOp.v = mlui_wrap_pointer(hp)

\* C2: in every reachable state and for every handle value, remove applied
\* twice leaves the state remove applied once leaves, and the second call
\* releases and unregisters nothing; over the whole run a status item is
\* released through a handle at most once, no object is released twice by
\* one call, and a root is only ever unregistered while it is registered.
C2_RemoveIdempotent ==
  /\ \A v \in HandleValues :
       LET r1 == mlui_tray_remove(World, v)
           r2 == mlui_tray_remove(r1.w, v)
       IN /\ r2.w = r1.w
          /\ r2.ret = Val_unit
          /\ NoNativeEffect(r2.eff)
  /\ \A hp \in HandlePtrs : hist.releases[hp] <= 1
  /\ \A k \in 1..Len(lastOp.eff.unpinned) : lastOp.eff.unpinned[k].wasRoot
  /\ \A j, k \in 1..Len(lastOp.eff.released) :
       lastOp.eff.released[j] = lastOp.eff.released[k] => j = k

\* remove has just been called on a handle whose status item an earlier
\* remove had released.
C2_Witness ==
  \E hp \in DOMAIN handle :
    /\ lastOp.op = "remove"
    /\ lastOp.v = mlui_wrap_pointer(hp)
    /\ lastOp.eff.released = <<>>
    /\ hist.releases[hp] = 1

\* The handle structs whose status item is the object at si.
Owners(si) == {hp \in DOMAIN handle : handle[hp].statusItem = si}

LiveHandles == {hp \in DOMAIN handle : handle[hp].removed = 0}

\* C3: a click on the status item of a handle invokes exactly one callback,
\* the one given to the most recent set_on_click on that handle; and right
\* after a set_on_click on a Live handle, a click on its status item invokes
\* the callback just given, once, and not the one it replaced.
C3_ClickInvokesLatest ==
  /\ lastOp.op = "click" =>
       \A hp \in Owners(lastOp.arg.data) :
         hist.lastSet[hp] # NoCallback =>
           /\ Len(lastOp.eff.invoked) = 1
           /\ lastOp.eff.invoked[1].fn = hist.lastSet[hp]
  /\ (lastOp.op = "set_on_click" /\ mlui_unwrap_pointer(lastOp.v) \in LiveHandles) =>
       LET hp == mlui_unwrap_pointer(lastOp.v)
           r == click(World, handle[hp].statusItem)
       IN /\ Len(r.eff.invoked) = 1
          /\ r.eff.invoked[1].fn = lastOp.arg.data
          /\ \A k \in 1..Len(lastOp.eff.unpinned) :
               lastOp.eff.unpinned[k].cb # lastOp.arg.data =>
                 r.eff.invoked[1].fn # lastOp.eff.unpinned[k].cb

\* set_on_click(2) has just replaced callback 1 on a Live handle whose
\* status item is in the status bar, where a click can reach it.
C3_Witness ==
  /\ lastOp.op = "set_on_click"
  /\ lastOp.arg.data = 2
  /\ Len(lastOp.eff.unpinned) = 1
  /\ lastOp.eff.unpinned[1].cb = 1
  /\ mlui_unwrap_pointer(lastOp.v) \in LiveHandles
  /\ item[handle[mlui_unwrap_pointer(lastOp.v)].statusItem].inBar

\* The callbacks held in registered root slots.
PinnedCallbacks == {target[t].callback : t \in roots}

\* The callbacks last given to set_on_click on the handles that are Live.
InstalledCallbacks ==
  {hist.lastSet[hp] : hp \in {q \in LiveHandles : hist.lastSet[q] # NoCallback}}

\* C4: the callbacks in registered roots are exactly the callbacks installed
\* on Live handles: every root is the callback slot of the live adapter of
\* one Live handle and holds the callback last installed there, every Live
\* handle with a callback has its slot registered, and a slot is only
\* unregistered by a set_on_click on its handle (which registers it again
\* with the new callback) or by the remove of its handle, and only while it
\* is registered.
C4_PinBalance ==
  /\ PinnedCallbacks = InstalledCallbacks
  /\ \A t \in roots :
       /\ target[t].rc > 0
       /\ \E hp \in LiveHandles :
            handle[hp].target = t /\ target[t].callback = hist.lastSet[hp]
  /\ \A hp \in LiveHandles :
       hist.lastSet[hp] # NoCallback => handle[hp].target \in roots
  /\ lastOp.eff.pinned # <<>> =>
       /\ lastOp.op = "set_on_click"
       /\ \A k \in 1..Len(lastOp.eff.pinned) :
            /\ lastOp.eff.pinned[k].cb = lastOp.arg.data
            /\ ~lastOp.eff.pinned[k].wasRoot
            /\ lastOp.eff.pinned[k].addr \in roots
  /\ \A k \in 1..Len(lastOp.eff.unpinned) :
       /\ lastOp.eff.unpinned[k].wasRoot
       /\ \/ /\ lastOp.op = "set_on_click"
             /\ lastOp.eff.unpinned[k].addr =
                  handle[mlui_unwrap_pointer(lastOp.v)].target
          \/ /\ lastOp.op = "remove"
             /\ handle[mlui_unwrap_pointer(lastOp.v)].removed = 1
             /\ lastOp.eff.unpinned[k].addr \notin roots

\* remove has just unregistered the callback of one handle while another
\* handle keeps its callback registered.
C4_Witness ==
  /\ lastOp.op = "remove"
  /\ Len(lastOp.eff.unpinned) = 1
  /\ roots # {}

\* The bytes are UTF-8 text (the byte alphabet here is ASCII plus 255).
IsUtf8(s) == \A k \in 1..Len(s) : s[k] < 128

\* C5: set_title on a Live handle, given a text (read here, in the claim's
\* favour, as any OCaml string that is valid UTF-8), leaves its status item
\* with no image, with the title equal to the text given, and visible,
\* returns the handle value given, and leaves the handle structs, the
\* adapters and the roots unchanged.
C5_SetTitleExact ==
  [][(/\ lastOp'.op = "set_title"
      /\ mlui_unwrap_pointer(lastOp'.v) \in LiveHandles
      /\ IsUtf8(lastOp'.arg.data)) =>
       LET si == handle[mlui_unwrap_pointer(lastOp'.v)].statusItem
       IN /\ item'[si].image = NoImage
          /\ item'[si].title = lastOp'.arg.data
          /\ item'[si].visible
          /\ lastOp'.ret = lastOp'.v
          /\ handle' = handle
          /\ target' = target
          /\ roots' = roots]_vars

\* C6: make without an image path returns a handle value wrapping a struct
\* that was not allocated before, Live, with no adapter and no callback,
\* whose status item is in the status bar, visible, and titled with a
\* non-empty placeholder.
C6_MakeNoImage ==
  [][(lastOp'.op = "make" /\ lastOp'.arg = None) =>
       LET hp == mlui_unwrap_pointer(lastOp'.ret)
       IN /\ ~crashed'
          /\ lastOp'.ret.tag = "Abstract"
          /\ hp # NULL
          /\ hp \notin DOMAIN handle
          /\ hp \in DOMAIN handle'
          /\ handle'[hp].removed = 0
          /\ handle'[hp].target = nil
          /\ handle'[hp].statusItem # nil
          /\ hist'.lastSet[hp] = NoCallback
          /\ roots' = roots
          /\ LET it == item'[handle'[hp].statusItem]
             IN /\ it.rc > 0
                /\ it.inBar
                /\ it.visible
                /\ ~it.hidden
                /\ it.title # <<>>
                /\ it.image = NoImage]_vars

\* make has just been called without an image path.
C6_Witness == lastOp.op = "make" /\ lastOp.arg = None

\* The file at the path given holds no image that loads.
LoadFails(vPath) == stringWithCString(String_val(vPath)) \notin ImageFiles

\* C7: make with a path whose image does not load does not crash and returns
\* a Live handle whose status item has no image; on that handle set_title
\* sets the item up and returns the handle, set_on_click installs a callback
\* that a click then invokes, and remove releases the item and marks the
\* handle Removed.
C7_MakeBadImage ==
  (lastOp.op = "make" /\ Is_block(lastOp.arg) /\ LoadFails(Field0(lastOp.arg))) =>
    LET v == lastOp.ret
        hp == mlui_unwrap_pointer(v)
    IN /\ ~crashed
       /\ v.tag = "Abstract"
       /\ hp \in LiveHandles
       /\ handle[hp].statusItem # nil
       /\ LET si == handle[hp].statusItem
          IN /\ item[si].rc > 0 /\ item[si].inBar /\ item[si].visible
             /\ item[si].image = NoImage
             /\ \A vTitle \in Titles :
                  LET r == mlui_tray_set_title(World, v, vTitle, FALSE)
                  IN /\ r.ret = v
                     /\ r.eff.touched = {<<"item", si>>}
                     /\ r.w.item[si].visible
                     /\ r.w.item[si].image = NoImage
             /\ \A cb \in Callbacks :
                  LET r == mlui_tray_set_on_click(World, v, cb, NewTargetAddr(hp))
                      c == click(r.w, si)
                  IN /\ r.ret = Val_unit
                     /\ ~r.w.crashed
                     /\ Len(c.eff.invoked) = 1
                     /\ c.eff.invoked[1].fn = cb
             /\ LET r == mlui_tray_remove(World, v)
                IN /\ r.w.handle[hp].removed = 1
                   /\ r.w.item[si].rc = 0
                   /\ r.eff.released = << <<"item", si>> >>

\* make has just been called with a path that holds no image.
C7_Witness ==
  /\ lastOp.op = "make"
  /\ Is_block(lastOp.arg)
  /\ LoadFails(Field0(lastOp.arg))

\* C8: set_title, set_on_click and remove on a wrapped null pointer change
\* nothing, dereference no handle struct, message no native object, register
\* and unregister nothing and do not crash; set_title returns the value it
\* was given, the other two return unit.
C8_NullHandle ==
  [][(lastOp'.op \in HandleOps /\ lastOp'.v = mlui_wrap_pointer(NULL)) =>
       /\ handle' = handle
       /\ item' = item
       /\ target' = target
       /\ roots' = roots
       /\ ~crashed'
       /\ lastOp'.eff = E0
       /\ lastOp'.ret = IF lastOp'.op = "set_title" THEN lastOp'.v ELSE Val_unit]_vars

\* set_on_click has just been called on a wrapped null pointer while a
\* handle with a status item exists.
C8_Witness ==
  /\ lastOp.op = "set_on_click"
  /\ lastOp.v = mlui_wrap_pointer(NULL)
  /\ LiveHandles # {}

\* C9: a click on the status item of a handle no set_on_click was accepted
\* on invokes nothing; a click on the item of a handle whose callback slot
\* is registered invokes the callback in the slot, once, with unit, within
\* the click; and a click changes no handle struct, item, adapter or root.
C9_ClickDelivery ==
  [][lastOp'.op = "click" =>
       /\ handle' = handle
       /\ item' = item
       /\ target' = target
       /\ roots' = roots
       /\ ~crashed'
       /\ \A hp \in Owners(lastOp'.arg.data) :
            /\ hist.lastSet[hp] = NoCallback => lastOp'.eff.invoked = <<>>
            /\ (handle[hp].target # nil /\ handle[hp].target \in roots) =>
                 lastOp'.eff.invoked =
                   <<[fn |-> target[handle[hp].target].callback,
                      arg |-> Val_unit, rooted |-> TRUE]>>]_vars

\* A click has just been delivered to the status item of a Live handle that
\* has no callback, and it invoked nothing.
C9_Witness ==
  /\ lastOp.op = "click"
  /\ lastOp.eff.invoked = <<>>
  /\ \E hp \in Owners(lastOp.arg.data) :
       handle[hp].removed = 0 /\ hist.lastSet[hp] = NoCallback

\* What belongs to the handle struct at q: the struct, its status item, its
\* adapter, and whether the adapter's callback slot is a registered root.
HandleView(hd, it, tg, rts, q) ==
  [h |-> hd[q],
   it |-> IF hd[q].statusItem # nil THEN it[hd[q].statusItem] ELSE FreeItem,
   tg |-> IF hd[q].target # nil THEN tg[hd[q].target] ELSE FreeTarget,
   rooted |-> hd[q].target # nil /\ hd[q].target \in rts]

\* The handle structs a call acted on: the one its handle value wraps, the
\* one make allocated, or the owners of the status item clicked.
ActedOn(op, hd) ==
  IF op.op = "click" THEN {hp \in DOMAIN hd : hd[hp].statusItem = op.arg.data}
  ELSE IF op.op = "make" THEN {mlui_unwrap_pointer(op.ret)}
  ELSE {mlui_unwrap_pointer(op.v)}

\* C10: no two handle structs hold the same status item or the same target
\* adapter, and every call leaves what belongs to the handles it did not act
\* on (struct, status item with title and image, adapter with callback,
\* root registration) unchanged.
C10_HandlesIndependent ==
  [][/\ \A p, q \in DOMAIN handle' :
          p # q =>
            /\ handle'[p].statusItem # nil =>
                 handle'[p].statusItem # handle'[q].statusItem
            /\ handle'[p].target # nil =>
                 handle'[p].target # handle'[q].target
     /\ \A q \in DOMAIN handle :
          q \notin ActedOn(lastOp', handle) =>
            HandleView(handle', item', target', roots', q)
              = HandleView(handle, item, target, roots, q)]_vars

\* set_on_click has just replaced the callback of one Live handle while
\* another Live handle holds a callback of its own.
C10_Witness ==
  \E p, q \in LiveHandles :
    /\ p # q
    /\ lastOp.op = "set_on_click"
    /\ lastOp.v = mlui_wrap_pointer(p)
    /\ lastOp.eff.unpinned # <<>>
    /\ handle[q].target # nil

\* What the host sees of a call's return: unit, the handle value it passed,
\* or an abstract block.
Shape(op, v, ret) ==
  IF ret = Val_unit THEN "unit"
  ELSE IF ret.tag # "Abstract" THEN "none"
  ELSE IF op = "make" THEN "abstract handle"
  ELSE IF ret = v THEN "the handle given"
  ELSE "another handle"

\* C11: on the build without __APPLE__, for every sequence of calls, make
\* returns a new abstract block, set_title returns the very value it was
\* given, set_on_click and remove return unit, and no call registers,
\* unregisters, releases, invokes or touches anything; and whenever the
\* native primitive called with the same arguments returns, what it returns
\* has the same shape as what the stub returns.
C11_StubsInert ==
  /\ stub.eff = E0
  /\ stub.op = "make" =>
       /\ stub.ret.tag = "Abstract"
       /\ stub.ret.block = stub.blocks
  /\ stub.op = "set_title" => stub.ret = stub.v
  /\ stub.op \in {"set_on_click", "remove"} => stub.ret = Val_unit
  /\ (lastOp.op = stub.op /\ lastOp.ret # NoReturn) =>
       Shape(lastOp.op, lastOp.v, lastOp.ret) = Shape(stub.op, stub.v, stub.ret)

\* set_title has just been called on both builds with the second handle
\* made, Live on the native build, and both returned.
C11_Witness ==
  /\ stub.op = "set_title"
  /\ lastOp.op = "set_title"
  /\ lastOp.ret # NoReturn
  /\ stub.v.block = 2
  /\ mlui_unwrap_pointer(lastOp.v) \in LiveHandles

\* C12: a native show_alert puts up the modal dialog with the fixed
\* heading, the given message as its body and one OK button, and has not
\* returned; it returns, and returns unit, only in the step in which the
\* user dismisses the dialog; the stub appends one notice holding the given
\* message to stdout and returns in the same step.
C12_AlertBlocks ==
  [][/\ alert'.calls # alert.calls =>
          /\ alert'.pc = "runModal"
          /\ alert'.dialog.messageText = "Hello from Cocoa!"
          /\ alert'.dialog.informativeText = alert'.vMessage
          /\ alert'.dialog.buttons = <<"OK">>
          /\ alert'.ret = NoReturn
          /\ alert'.returns = alert.returns
     /\ alert'.returns # alert.returns =>
          /\ alert.pc = "runModal"
          /\ alert'.dismissals = alert.dismissals + 1
          /\ alert'.ret = Val_unit
          /\ alert'.pc = "idle"
     /\ alert'.stubReturns # alert.stubReturns =>
          /\ Len(alert'.stdout) = Len(alert.stdout) + 1
          /\ alert'.stdout[Len(alert'.stdout)].arg = alert'.stubMessage
          /\ alert'.pc = alert.pc]_vars

\* The part of C12 about blocking: a native show_alert returns only in
\* the step in which the user dismisses the dialog, and returns unit.
C12_ReturnsOnDismissal ==
  [][/\ alert'.calls # alert.calls =>
          /\ alert'.pc = "runModal"
          /\ alert'.ret = NoReturn
          /\ alert'.returns = alert.returns
     /\ alert'.returns # alert.returns =>
          /\ alert.pc = "runModal"
          /\ alert'.dismissals = alert.dismissals + 1
          /\ alert'.ret = Val_unit]_vars

\* C13: in every reachable state and for every handle, removed = 1 exactly
\* when statusItem is nil; a removed handle has no adapter and its callback
\* slot is not registered; a Live handle has an adapter exactly when its
\* callback slot is registered; and at most one adapter was ever allocated
\* for the handle: the first set_on_click allocates it, later ones reuse it.
C13_HandleInvariants ==
  /\ \A hp \in DOMAIN handle :
       /\ handle[hp].removed = 1 <=> handle[hp].statusItem = nil
       /\ handle[hp].removed \in {0, 1}
       /\ handle[hp].removed = 1 =>
            /\ handle[hp].target = nil
            /\ NewTargetAddr(hp) \notin roots
       /\ handle[hp].removed = 0 =>
            /\ handle[hp].target # nil <=> NewTargetAddr(hp) \in roots
            /\ handle[hp].target # nil => handle[hp].target \in roots
            /\ handle[hp].target # nil <=> hist.targets[hp] = 1
       /\ hist.targets[hp] <= 1
  /\ lastOp.op = "set_on_click" =>
       /\ Len(lastOp.eff.allocated) <= 1
       /\ lastOp.eff.allocated # <<>> => Len(lastOp.eff.unpinned) = 0
       /\ (lastOp.eff.allocated = <<>> /\ lastOp.eff.pinned # <<>>) =>
            Len(lastOp.eff.unpinned) = 1
  /\ lastOp.op # "set_on_click" => lastOp.eff.allocated = <<>>

\* A handle that had an adapter and a registered callback has been removed,
\* while another handle is on its second set_on_click with the adapter its
\* first one allocated.
C13_Witness ==
  /\ \E hp \in DOMAIN handle :
       /\ handle[hp].removed = 1
       /\ hist.targets[hp] = 1
  /\ lastOp.op = "set_on_click"
  /\ mlui_unwrap_pointer(lastOp.v) \in LiveHandles
  /\ lastOp.eff.allocated = <<>>
  /\ Len(lastOp.eff.unpinned) = 1

\* The set_on_click in progress, if the innermost call is one on a usable
\* handle.
InSetOnClick ==
  /\ pc # <<>>
  /\ Head(pc).op = "set_on_click"
  /\ Usable(Head(pc).w0, Head(pc).self)

\* C14: inside set_on_click on a Live handle, statement by statement: a
\* callback slot changes only while it is not registered, so a registered
\* slot is never overwritten; the slot of a handle that already has a
\* callback is unregistered while it still holds the old callback, and it is
\* registered again only once it holds the new one; and in every state,
\* those inside the call included, a registered slot belongs to one live
\* adapter of one handle and holds one callback, the old one or the new one.
C14_UnpinBeforeStore ==
  [][\A t \in TargetAddrs :
       /\ target'[t].callback # target[t].callback => t \notin roots
       /\ (t \in roots /\ t \notin roots' /\ InSetOnClick) =>
            /\ target[t].callback = Head(pc).w0.target[t].callback
            /\ target'[t].callback = target[t].callback
       /\ (t \notin roots /\ t \in roots') =>
            /\ InSetOnClick
            /\ target[t].callback = Head(pc).arg
            /\ target'[t].callback = Head(pc).arg
       /\ t \in roots' =>
            /\ target'[t].rc > 0
            /\ target'[t].callback # NoCallback
            /\ Cardinality({hp \in DOMAIN handle' :
                              handle'[hp].target = t}) = 1
            /\ InSetOnClick =>
                 target'[t].callback \in
                   {Head(pc).w0.target[t].callback, Head(pc).arg}]_vars

\* Inside a set_on_click that replaces callback 1 by callback 2: the slot is
\* unregistered, still holds callback 1, and the store comes next.
C14_Witness ==
  /\ InSetOnClick
  /\ Head(pc).todo # <<>>
  /\ Head(Head(pc).todo) = "store"
  /\ Head(pc).arg = 2
  /\ Head(pc).w0.handle[Head(pc).self].target # nil
  /\ target[Head(pc).w0.handle[Head(pc).self].target].callback = 1
  /\ Head(pc).w0.handle[Head(pc).self].target \notin roots

\* Registered slots are exactly the slots of the adapters of Live handles,
\* each alive and holding a callback.
PinsBalanced ==
  /\ roots = {handle[hp].target :
                hp \in {q \in LiveHandles : handle[q].target # nil}}
  /\ \A t \in roots : target[t].rc > 0 /\ target[t].callback # NoCallback

\* The handles whose adapter is the object at t.
AdapterOwners(w, t) ==
  {hp \in DOMAIN w.handle : w.handle[hp].target = t}

\* C16: a click whose callback calls remove or set_on_click before it
\* returns: the click invokes one callback, the one registered on the
\* adapter when the click was delivered, and not the one installed during
\* the click; after the callback has returned handleClick reads no released
\* adapter and no unregistered slot, and nothing crashes; and when the click
\* returns the state is the one that call alone would have left behind from
\* the state in which the click was delivered, with the registered slots
\* those of the Live handles' adapters.
C16_ReentrantClick ==
  /\ ~crashed
  /\ \A k \in 1..Len(pc) :
       pc[k].op = "click" =>
         /\ Len(pc[k].invoked) <= 1
         /\ \A i \in 1..Len(pc[k].invoked) :
              /\ pc[k].invoked[i].rooted
              /\ pc[k].self \in pc[k].w0.roots
              /\ pc[k].invoked[i].fn = pc[k].w0.target[pc[k].self].callback
         /\ \A e \in pc[k].touchedAfter : e.alive /\ e.rooted
         /\ (~pc[k].running /\ pc[k].todo = <<>>) =>
              /\ Len(pc[k].invoked) = 1
              /\ Len(pc[k].calls) <= 1
              /\ pc[k].calls = <<>> => World = pc[k].w0
              /\ pc[k].calls # <<>> =>
                   World = AtomicCall([op |-> pc[k].calls[1].op,
                                       v |-> pc[k].calls[1].v,
                                       arg |-> pc[k].calls[1].arg,
                                       w0 |-> pc[k].w0]).w
              /\ PinsBalanced
  /\ (pc # <<>> /\ Head(pc).op \in {"set_on_click", "remove"}
        /\ Head(pc).todo = <<>>) =>
       World = AtomicCall(Head(pc)).w
  /\ pc = <<>> => PinsBalanced

\* handleClick is about to return from a click whose callback removed the
\* handle it was installed on: the adapter handleClick runs on is released.
C16_Witness ==
  /\ pc # <<>>
  /\ Head(pc).op = "click"
  /\ ~Head(pc).running
  /\ Head(pc).todo = <<>>
  /\ Len(Head(pc).calls) = 1
  /\ Head(pc).calls[1].op = "remove"
  /\ mlui_unwrap_pointer(Head(pc).calls[1].v)
       \in AdapterOwners(Head(pc).w0, Head(pc).self)
  /\ target[Head(pc).self].rc = 0
  /\ Len(Head(pc).invoked) = 1

\* C17: remove detaches the status item from the status bar before it
\* touches the adapter: while the item of the handle being removed is still
\* in the status bar, the adapter is alive and its slot registered as they
\* were; a removed handle's status item is gone from the status bar, so no
\* click is enabled on it; every click is delivered to the adapter of a
\* Live handle whose item is in the status bar, and every callback a click
\* invokes is registered when it is invoked; an item in the status bar never
\* has a released adapter as its button's target.
C17_NoClickAfterRemove ==
  /\ \A k \in 1..Len(pc) :
       /\ (pc[k].op = "remove" /\ Usable(pc[k].w0, pc[k].self)) =>
            LET si0 == pc[k].w0.handle[pc[k].self].statusItem
                t0 == pc[k].w0.handle[pc[k].self].target
            IN (item[si0].inBar /\ t0 # nil) =>
                 /\ target[t0] = pc[k].w0.target[t0]
                 /\ t0 \in roots
       /\ pc[k].op = "click" =>
            /\ \A i \in 1..Len(pc[k].invoked) : pc[k].invoked[i].rooted
            /\ AdapterOwners(pc[k].w0, pc[k].self) # {}
            /\ \A hp \in AdapterOwners(pc[k].w0, pc[k].self) :
                 /\ pc[k].w0.handle[hp].removed = 0
                 /\ pc[k].w0.item[pc[k].w0.handle[hp].statusItem].inBar
  /\ \A hp \in DOMAIN handle :
       handle[hp].removed = 1 =>
         /\ ~item[NewStatusItemAddr(hp)].inBar
         /\ item[NewStatusItemAddr(hp)].rc = 0
         /\ \A si \in ItemAddrs : item[si].btnTarget # NewTargetAddr(hp)
  /\ \A si \in ItemAddrs :
       (item[si].inBar /\ item[si].btnTarget # nil) =>
         target[item[si].btnTarget].rc > 0
  /\ ~crashed

\* Inside remove on a handle with a registered callback: the status item
\* is out of the status bar and released, and the release of the adapter
\* comes next.
C17_Witness ==
  /\ pc # <<>>
  /\ Head(pc).op = "remove"
  /\ Head(pc).todo # <<>>
  /\ Head(Head(pc).todo) = "releaseTarget"
  /\ handle[Head(pc).self].target # nil
  /\ target[handle[Head(pc).self].target].rc > 0
  /\ ~item[Head(pc).w0.handle[Head(pc).self].statusItem].inBar
  /\ Head(pc).w0.handle[Head(pc).self].target \in Head(pc).w0.roots

\* C15: whatever make is given (no path, a path that loads, a path that
\* does not load), the status item of the Live handle it returns shows
\* something before any set_title: an image, or a title that is not empty.
C15_VisibleByDefault ==
  lastOp.op = "make" =>
    LET hp == mlui_unwrap_pointer(lastOp.ret)
    IN /\ hp \in LiveHandles
       /\ item[handle[hp].statusItem].inBar
       /\ \/ item[handle[hp].statusItem].image # NoImage
          \/ item[handle[hp].statusItem].title # <<>>

====
